---- MODULE Spec2Model ----
(***************************************************************************)
(* The course store of first-app-ngmodule, its two list views and the      *)
(* admin form.                                                             *)
(*                                                                         *)
(* The repository holds two implementations of CourseService:              *)
(*   "subject": services/course/course.service.ts, a BehaviorSubject that  *)
(*              CoursesComponent (unnamed/part_002) subscribes to;         *)
(*   "signal":  unnamed/part_003, a WritableSignal read by the            *)
(*              CoursesComponent of pages/courses/courses.component.ts.    *)
(* AdminComponent (pages/admin/admin.component.ts) drives either one.      *)
(* The variable impl says which one the running application was built     *)
(* with; it never changes.                                                 *)
(*                                                                         *)
(* Every handler runs to completion on the single UI thread, so each       *)
(* handler is one action.  What a handler did on the way (the order of     *)
(* its storage write, its publication and the synchronous deliveries to    *)
(* subscribers) is kept in the history variables trace and last.           *)
(*                                                                         *)
(* Not modelled: AdminComponent.cover_file and the controls' touched flag, *)
(* which the handlers write and never read.                                *)
(***************************************************************************)
EXTENDS Integers, Sequences, FiniteSets, TLC

\* ---------------------------------------------------------------- bounds
MaxLen      == 2   \* addCourse is not offered once the list holds MaxLen courses
MaxReaders  == 1   \* FileReaders that can be in flight at once
MaxFailures == 1   \* localStorage.setItem calls that can throw in one run

\* ------------------------------------------------------------ JS values
Undefined == "<undefined>"     \* an uninitialised field (cover!: string)
Null      == "<null>"          \* JavaScript null (a reset form control)
NoItem    == <<>>              \* localStorage.getItem of an absent key

Impls  == {"subject", "signal"}
Files  == {"f1"}
\* The CoursesComponent instances: two, so that registration order shows.
Views  == {1, 2}

\* FileReader.readAsDataURL: the result string of reading file f.
DataURL(f) == "data:" \o f

\* JavaScript truthiness of a string-or-undefined value (!this.cover).
Truthy(s) == s \notin {Undefined, Null, ""}

\* NgForm.value: what the form hands to saveCourse.  A filled-in form, here
\* one that also carries an id field, and the form after form.reset(), whose
\* controls are null (id 0 stands for a value that carries no id).
FormValues == { [title |-> "A", id |-> 7] }
ResetValue == [title |-> Null, id |-> 0]

VARIABLES
    impl,       \* which CourseService the application was built with
    mem,        \* courses$.value (subject) / courses() (signal)
    storage,    \* localStorage[Strings.STORAGE_KEY]: JSON text as tokens, or NoItem
    views,      \* views[v] = [mounted, courses] of CoursesComponent instance v
    subs,       \* observers of courses$, in registration order
    cover,      \* AdminComponent.cover
    showError,  \* AdminComponent.showError
    readers,    \* files whose FileReader has not fired onload yet
    form,       \* NgForm.value of the admin form
    nFail,      \* setItem calls that have thrown so far
    trace,      \* history: side effects of the last handler, in order
    last,       \* history: the last handler and its inputs
    selected,   \* history: a file was selected since the last successful submit
    addLog,     \* history: payloads of the adds, while only adds ran on an empty store
    scen        \* history: progress through add, add, delete the first, add, delete

vars == <<impl, mem, storage, views, subs, cover, showError,
          readers, form, nFail, trace, last, selected, addLog, scen>>

\* ----------------------------------------------------------------- JSON
\* JSON text is a sequence of tokens.  A string value is three tokens
\* (quote, characters, quote), null is the token "null", a number is one
\* token per decimal digit.
DigitChar == <<"0", "1", "2", "3", "4", "5", "6", "7", "8", "9">>

RECURSIVE NumberTokens(_)
NumberTokens(n) ==
    IF n < 10 THEN <<DigitChar[n + 1]>>
    ELSE Append(NumberTokens(n \div 10), DigitChar[(n % 10) + 1])

StringTokens(s) == IF s = Null THEN <<"null">> ELSE <<"\"", s, "\"">>

KeyTokens(k) == <<"\"", k, "\"", ":">>

\* JSON.stringify of one stored course {title, image, id}.
ObjectTokens(c) ==
    <<"{">> \o KeyTokens("title") \o StringTokens(c.title) \o <<",">>
            \o KeyTokens("image") \o StringTokens(c.image) \o <<",">>
            \o KeyTokens("id")    \o NumberTokens(c.id)    \o <<"}">>

RECURSIVE ElementTokens(_)
ElementTokens(list) ==
    IF list = <<>> THEN <<>>
    ELSE IF Len(list) = 1 THEN ObjectTokens(list[1])
    ELSE ObjectTokens(list[1]) \o <<",">> \o ElementTokens(Tail(list))

\* JSON.stringify(data) of a Course[].
JSONstringify(list) == <<"[">> \o ElementTokens(list) \o <<"]">>

DigitValue(ch) == (CHOOSE d \in 1..10 : DigitChar[d] = ch) - 1
IsDigit(ch) == \E d \in 1..10 : DigitChar[d] = ch

RECURSIVE ParseNumber(_, _, _)
ParseNumber(t, i, acc) ==
    IF i <= Len(t) /\ IsDigit(t[i])
    THEN ParseNumber(t, i + 1, acc * 10 + DigitValue(t[i]))
    ELSE [val |-> acc, next |-> i]

ParseString(t, i) ==
    IF t[i] = "null" THEN [val |-> Null, next |-> i + 1]
    ELSE [val |-> t[i + 1], next |-> i + 3]

\* One object starting at token i ("{"); next is the index after its "}".
ParseObject(t, i) ==
    LET title == ParseString(t, i + 5)
        image == ParseString(t, title.next + 5)
        id    == ParseNumber(t, image.next + 5, 0)
    IN  [val  |-> [title |-> title.val, image |-> image.val, id |-> id.val],
         next |-> id.next + 1]

RECURSIVE ParseElements(_, _, _)
ParseElements(t, i, acc) ==
    IF t[i] = "]" THEN acc
    ELSE LET o == ParseObject(t, IF t[i] = "," THEN i + 1 ELSE i)
         IN  ParseElements(t, o.next, Append(acc, o.val))

\* JSON.parse(data) of a stored Course[].
JSONparse(t) == ParseElements(t, 2, <<>>)

\* ------------------------------------------------------- the course store
\* What a fresh store reads back from the storage key (getCourses /
\* loadCourses): the parsed list when the item is there, [] when not.
Load(item) == IF item # NoItem THEN JSONparse(item) ELSE <<>>

\* History events of one handler.
Ev(kind, to, snap) == [ev |-> kind, to |-> to, snap |-> snap]

\* Mutant: { id: courses.length + 1, ...data }, where an id carried by the
\* payload wins over the assigned one.
NewCourseKeepsId(data, courses) ==
    [title |-> data.title, image |-> data.image,
     id |-> IF data.id # 0 THEN data.id ELSE Len(courses) + 1]

\* { ...data, id: courses.length + 1 }
NewCourse(data, courses) ==
    [title |-> data.title, image |-> data.image, id |-> Len(courses) + 1]

\* Mutant: the comparison inverted (c.id === course.id).
FilterOutInverted(courses, course) ==
    SelectSeq(courses, LAMBDA c : c.id = course.id)

RECURSIVE FilterOutFirst(_, _)
\* Mutant: only the first entry with the id is removed (findIndex + splice).
FilterOutFirst(courses, course) ==
    IF courses = <<>> THEN <<>>
    ELSE IF courses[1].id = course.id THEN Tail(courses)
    ELSE <<courses[1]>> \o FilterOutFirst(Tail(courses), course)

RECURSIVE FilterOut(_, _)
\* courses.filter((c) => c.id !== course.id)
FilterOut(courses, course) ==
    IF courses = <<>> THEN <<>>
    ELSE IF courses[1].id # course.id
         THEN <<courses[1]>> \o FilterOut(Tail(courses), course)
         ELSE FilterOut(Tail(courses), course)

\* setData: localStorage.setItem(key, JSON.stringify(data)); quotaOk = FALSE
\* is setItem throwing (quota exceeded), which leaves the item as it was.
SetData(item, data, quotaOk) ==
    IF quotaOk
    THEN [storage |-> JSONstringify(data), threw |-> FALSE,
          events |-> <<Ev("setItem", 0, data)>>]
    ELSE [storage |-> item, threw |-> TRUE,
          events |-> <<Ev("throw", 0, data)>>]

RECURSIVE Deliveries(_, _)
\* Subject.next: the observers are called in registration order.
Deliveries(ss, data) ==
    IF ss = <<>> THEN <<>>
    ELSE <<Ev("deliver", ss[1], data)>> \o Deliveries(Tail(ss), data)

\* The views after each subscribed one ran its next callback
\* (this.courses = courses).
Delivered(vs, ss, data) ==
    [v \in Views |->
        IF \E i \in 1..Len(ss) : ss[i] = v
        THEN [vs[v] EXCEPT !.courses = data] ELSE vs[v]]

\* updateCourses: this.courses$.next(data)
UpdateCourses(vs, ss, data) ==
    [views  |-> Delivered(vs, ss, data),
     events |-> <<Ev("next", 0, data)>> \o Deliveries(ss, data)]

\* The result of a store operation: the new state of what it touches, the
\* side effects in the order they happened, and whether it threw.
Outcome(m, item, vs, events, threw) ==
    [mem |-> m, storage |-> item, views |-> vs, events |-> events, threw |-> threw]

\* Mutant: setData before next().
AddCourseSubjectSaveFirst(courses, item, vs, ss, data, quotaOk) ==
    LET newCourses == Append(courses, NewCourse(data, courses))
        u == UpdateCourses(vs, ss, newCourses)
        s == SetData(item, newCourses, quotaOk)
    IN  IF s.threw
        THEN Outcome(courses, s.storage, vs, s.events, TRUE)
        ELSE Outcome(newCourses, s.storage, u.views, s.events \o u.events, FALSE)

\* Mutant: the subject is put back to the old list when setData throws.
AddCourseSubjectRollback(courses, item, vs, ss, data, quotaOk) ==
    LET newCourses == Append(courses, NewCourse(data, courses))
        u == UpdateCourses(vs, ss, newCourses)
        s == SetData(item, newCourses, quotaOk)
        b == UpdateCourses(u.views, ss, courses)
    IN  IF s.threw
        THEN Outcome(courses, s.storage, b.views, u.events \o s.events \o b.events, TRUE)
        ELSE Outcome(newCourses, s.storage, u.views, u.events \o s.events, FALSE)

\* course.service.ts addCourse: next() first, then setData.  When setItem
\* throws, the subject already holds and has published the new list.
AddCourseSubject(courses, item, vs, ss, data, quotaOk) ==
    LET newCourses == Append(courses, NewCourse(data, courses))
        u == UpdateCourses(vs, ss, newCourses)
        s == SetData(item, newCourses, quotaOk)
    IN  Outcome(newCourses, s.storage, u.views, u.events \o s.events, s.threw)

\* part_003 addCourse: setData runs inside the updater handed to
\* signal.update, which sets the signal to the updater's return value; when
\* the updater throws, the signal is not set.
AddCourseSignal(courses, item, vs, ss, data, quotaOk) ==
    LET updateCourses == Append(courses, NewCourse(data, courses))
        s == SetData(item, updateCourses, quotaOk)
    IN  IF s.threw
        THEN Outcome(courses, s.storage, vs, s.events, TRUE)
        ELSE Outcome(updateCourses, s.storage, vs,
                     s.events \o <<Ev("set", 0, updateCourses)>>, FALSE)

\* Mutant: deleteCourse forgets to persist.
DeleteCourseSubjectNoSave(courses, item, vs, ss, course, quotaOk) ==
    LET filtered == FilterOut(courses, course)
        u == UpdateCourses(vs, ss, filtered)
    IN  Outcome(filtered, item, u.views, u.events \o <<Ev("setItem", 0, filtered)>>, FALSE)

\* course.service.ts deleteCourse
DeleteCourseSubject(courses, item, vs, ss, course, quotaOk) ==
    LET filtered == FilterOut(courses, course)
        u == UpdateCourses(vs, ss, filtered)
        s == SetData(item, filtered, quotaOk)
    IN  Outcome(filtered, s.storage, u.views, u.events \o s.events, s.threw)

\* part_003 deleteCourse
DeleteCourseSignal(courses, item, vs, ss, course, quotaOk) ==
    LET updateCourses == FilterOut(courses, course)
        s == SetData(item, updateCourses, quotaOk)
    IN  IF s.threw
        THEN Outcome(courses, s.storage, vs, s.events, TRUE)
        ELSE Outcome(updateCourses, s.storage, vs,
                     s.events \o <<Ev("set", 0, updateCourses)>>, FALSE)

\* Mutant: getCourses returns the parsed list without publishing it.
GetCoursesNoPublish(courses, item, vs, ss) ==
    IF item # NoItem
    THEN [mem |-> courses, views |-> vs, events |-> <<>>, ret |-> JSONparse(item)]
    ELSE [mem |-> courses, views |-> vs, events |-> <<>>, ret |-> <<>>]

\* course.service.ts getCourses: when the item is there, parse it, publish
\* it and return it; otherwise return [] and leave the subject alone.
GetCourses(courses, item, vs, ss) ==
    IF item # NoItem
    THEN LET parsed == JSONparse(item)
             u == UpdateCourses(vs, ss, parsed)
         IN  [mem |-> parsed, views |-> u.views, events |-> u.events, ret |-> parsed]
    ELSE [mem |-> courses, views |-> vs, events |-> <<>>, ret |-> <<>>]

\* part_003 constructor / loadCourses: the signal's value after construction.
LoadCourses(item) == IF item # NoItem THEN JSONparse(item) ELSE <<>>

\* ------------------------------------------------------------- histories
NoArg == [title |-> Null, image |-> Null, id |-> 0]

\* The record of the handler that runs now: which one, its argument (the
\* payload of an add, the course of a delete), form.invalid of a submit,
\* whether it called the store, and whether it returned without throwing.
Last(op, arg, invalid, called, ok) ==
    [op |-> op, arg |-> arg, invalid |-> invalid, called |-> called, ok |-> ok]

Dead == [alive |-> FALSE, log |-> <<>>]

AddLogAfterAdd(data, ok) ==
    IF addLog.alive /\ ok THEN [alive |-> TRUE, log |-> Append(addLog.log, data)]
    ELSE Dead

ScenAfterAdd(ok) == IF ok /\ scen \in {0, 1, 3} THEN scen + 1 ELSE 0 - 1

ScenAfterDelete(course, ok) ==
    IF ok /\ scen = 2 /\ course.id = 1 THEN 3
    ELSE IF ok /\ scen = 4 THEN 5
    ELSE 0 - 1

\* --------------------------------------------------------------- Init
C(title, file, id) == [title |-> title, image |-> DataURL(file), id |-> id]

\* What an earlier session can have left under the storage key.
InitItems ==
    { NoItem,
      JSONstringify(<<>>),
      JSONstringify(<<C("B", "f1", 12)>>) }

Init ==
    /\ impl \in Impls
    /\ storage \in InitItems
    /\ mem = (IF impl = "signal" THEN LoadCourses(storage) ELSE <<>>)
    /\ views = [v \in Views |-> [mounted |-> FALSE, courses |-> <<>>]]
    /\ subs = <<>>
    /\ cover = Undefined
    /\ showError = FALSE
    /\ readers = <<>>
    /\ form = ResetValue
    /\ nFail = 0
    /\ trace = <<>>
    /\ last = [op |-> "other", arg |-> NoArg, invalid |-> FALSE, called |-> FALSE,
               ok |-> TRUE]
    /\ selected = FALSE
    /\ addLog = [alive |-> Load(storage) = <<>>, log |-> <<>>]
    /\ scen = (IF Load(storage) = <<>> THEN 0 ELSE 0 - 1)

\* ------------------------------------------------------------- the views
RemoveAt(seq, i) == SubSeq(seq, 1, i - 1) \o SubSeq(seq, i + 1, Len(seq))

RECURSIVE Without(_, _)
Without(ss, v) ==
    IF ss = <<>> THEN <<>>
    ELSE IF ss[1] = v THEN Without(Tail(ss), v)
    ELSE <<ss[1]>> \o Without(Tail(ss), v)

\* part_002 ngOnInit: courses = getCourses(), then subscribe; a
\* BehaviorSubject hands its current value to the new observer at once.
NgOnInit(v) ==
    /\ impl = "subject"
    /\ ~views[v].mounted
    /\ LET g == GetCourses(mem, storage, views, subs)
       IN  /\ mem' = g.mem
           /\ views' = [g.views EXCEPT ![v] = [mounted |-> TRUE, courses |-> g.mem]]
           /\ subs' = Append(subs, v)
           /\ trace' = g.events \o <<Ev("deliver", v, g.mem)>>
           /\ addLog' = IF g.mem = mem THEN addLog ELSE Dead
           /\ scen' = IF g.mem = mem THEN scen ELSE 0 - 1
    /\ last' = Last("mount", NoArg, FALSE, FALSE, TRUE)
    /\ UNCHANGED <<impl, storage, cover, showError, readers, form,
                   nFail, selected>>

\* part_002 ngOnDestroy: coursesSub.unsubscribe()
NgOnDestroy(v) ==
    /\ impl = "subject"
    /\ views[v].mounted
    /\ views' = [views EXCEPT ![v] = [mounted |-> FALSE, courses |-> <<>>]]
    /\ subs' = Without(subs, v)
    /\ trace' = <<>>
    /\ last' = Last("other", NoArg, FALSE, FALSE, TRUE)
    /\ UNCHANGED <<impl, mem, storage, cover, showError, readers,
                   form, nFail, selected, addLog, scen>>

\* The list a view offers its delete buttons for: this.courses of a
\* mounted part_002 view, the signal's value for the signal view.
Shown(v) ==
    IF impl = "subject"
    THEN (IF views[v].mounted THEN views[v].courses ELSE <<>>)
    ELSE (IF v = 1 THEN mem ELSE <<>>)

DeleteCourseOp(course, quotaOk) ==
    IF impl = "subject"
    THEN DeleteCourseSubject(mem, storage, views, subs, course, quotaOk)
    ELSE DeleteCourseSignal(mem, storage, views, subs, course, quotaOk)

AddCourseOp(data, quotaOk) ==
    IF impl = "subject"
    THEN AddCourseSubject(mem, storage, views, subs, data, quotaOk)
    ELSE AddCourseSignal(mem, storage, views, subs, data, quotaOk)

\* CoursesComponent.deleteCourse(course), for entry i of the shown list.
DeleteCourse(v, i, quotaOk) ==
    /\ i \in 1..Len(Shown(v))
    /\ quotaOk \/ nFail < MaxFailures
    /\ LET course == Shown(v)[i]
           r == DeleteCourseOp(course, quotaOk)
       IN  /\ mem' = r.mem
           /\ storage' = r.storage
           /\ views' = r.views
           /\ trace' = r.events
           /\ nFail' = IF r.threw THEN nFail + 1 ELSE nFail
           /\ last' = Last("delete", course, FALSE, TRUE, ~r.threw)
           /\ scen' = ScenAfterDelete(course, ~r.threw)
    /\ addLog' = Dead
    /\ UNCHANGED <<impl, subs, cover, showError, readers, form, selected>>

\* -------------------------------------------------------- the admin form
\* onFileSelected with a file chosen: starts a FileReader, clears showError.
OnFileSelected(f) ==
    /\ Len(readers) < MaxReaders
    /\ readers' = Append(readers, f)
    /\ showError' = FALSE
    /\ selected' = TRUE
    /\ trace' = <<>>
    /\ last' = Last("other", NoArg, FALSE, FALSE, TRUE)
    /\ UNCHANGED <<impl, mem, storage, views, subs, cover, form, nFail, addLog, scen>>

\* reader.onload of the i-th reader in flight: this.cover = dataURL.
ReaderOnload(i) ==
    /\ i \in 1..Len(readers)
    /\ cover' = DataURL(readers[i])
    /\ readers' = RemoveAt(readers, i)
    /\ trace' = <<>>
    /\ last' = Last("other", NoArg, FALSE, FALSE, TRUE)
    /\ UNCHANGED <<impl, mem, storage, views, subs, showError, form,
                   nFail, selected, addLog, scen>>

\* The user fills the form in: NgForm.value becomes val.
EditForm(val) ==
    /\ form # val
    /\ form' = val
    /\ trace' = <<>>
    /\ last' = Last("other", NoArg, FALSE, FALSE, TRUE)
    /\ UNCHANGED <<impl, mem, storage, views, subs, cover, showError,
                   readers, nFail, selected, addLog, scen>>

\* Mutant: form.invalid && !this.cover
RejectsBoth(invalid, cv) == invalid /\ ~Truthy(cv)

\* onSubmit's guard: form.invalid || !this.cover
Rejects(invalid, cv) == invalid \/ ~Truthy(cv)

\* saveCourse's payload: { ...formVal, image: this.cover }
Payload(formVal, cv) == [title |-> formVal.title, id |-> formVal.id, image |-> cv]

\* onSubmit(form), with form.invalid = invalid.  Rejected: mark the
\* controls touched, raise showError when the cover is missing.  Accepted:
\* saveCourse calls addCourse; clearForm runs only when addCourse returned.
OnSubmit(invalid, quotaOk) ==
    IF Rejects(invalid, cover)
    THEN /\ quotaOk
         /\ showError' = (IF ~Truthy(cover) THEN TRUE ELSE showError)
         /\ trace' = <<>>
         /\ last' = Last("submit", NoArg, invalid, FALSE, TRUE)
         /\ UNCHANGED <<impl, mem, storage, views, subs, cover, form,
                        readers, nFail, selected, addLog, scen>>
    ELSE /\ Len(mem) < MaxLen
         /\ quotaOk \/ nFail < MaxFailures
         /\ LET data == Payload(form, cover)
                r == AddCourseOp(data, quotaOk)
            IN  /\ mem' = r.mem
                /\ storage' = r.storage
                /\ views' = r.views
                /\ trace' = r.events
                /\ nFail' = IF r.threw THEN nFail + 1 ELSE nFail
                /\ last' = Last("submit", data, invalid, TRUE, ~r.threw)
                /\ addLog' = AddLogAfterAdd(data, ~r.threw)
                /\ scen' = ScenAfterAdd(~r.threw)
                /\ IF r.threw
                   THEN UNCHANGED <<form, cover, selected>>
                   ELSE /\ form' = ResetValue
                        /\ cover' = ""
                        /\ selected' = FALSE
         /\ UNCHANGED <<impl, subs, showError, readers>>

Next ==
    \/ \E v \in Views : NgOnInit(v)
    \/ \E v \in Views : NgOnDestroy(v)
    \/ \E v \in Views, i \in 1..MaxLen, q \in BOOLEAN : DeleteCourse(v, i, q)
    \/ \E f \in Files : OnFileSelected(f)
    \/ \E i \in 1..MaxReaders : ReaderOnload(i)
    \/ \E val \in FormValues : EditForm(val)
    \/ \E invalid \in BOOLEAN, q \in BOOLEAN : OnSubmit(invalid, q)

Spec == Init /\ [][Next]_vars

\* ================================================================ claims
\* Positions in the last handler's trace of its storage writes and of its
\* publications (Subject.next / signal set), and the calls of subscribers.
Writes == {i \in 1..Len(trace) : trace[i].ev = "setItem"}
Publications == {i \in 1..Len(trace) : trace[i].ev \in {"next", "set"}}
Calls == {i \in 1..Len(trace) : trace[i].ev = "deliver"}
DeliveriesMade == SelectSeq(trace, LAMBDA e : e.ev = "deliver")
Expected(ss, snap) == [i \in 1..Len(ss) |-> Ev("deliver", ss[i], snap)]
Front(ss) == SubSeq(ss, 1, Len(ss) - 1)
Mutated == last.called
Completed == last.called /\ last.ok

\* C1: after every completed addCourse or deleteCourse the in-memory list
\* equals, course by course and in order, what a fresh load of the storage
\* key returns.
C1_RoundTrip == Completed => mem = Load(storage)

\* C1 witness: a completed mutation left two courses, one with a null
\* title, and they read back from storage.
C1_Witness ==
    /\ Completed
    /\ Len(mem) = 2
    /\ \E i \in 1..2 : mem[i].title = Null
    /\ mem = Load(storage)

\* C2: after n addCourse calls and nothing else on an empty store the list
\* has n entries, in call order, and the k-th has id k whatever id its
\* payload carried.
C2_AddsFromEmpty ==
    addLog.alive =>
        /\ Len(mem) = Len(addLog.log)
        /\ \A k \in 1..Len(mem) :
              /\ mem[k].id = k
              /\ mem[k].title = addLog.log[k].title
              /\ mem[k].image = addLog.log[k].image

\* C2 witness: two adds on an empty store, the second with a payload that
\* carried its own id, the first with a different title.
C2_Witness ==
    /\ addLog.alive
    /\ Len(addLog.log) = 2
    /\ addLog.log[2].id # 0
    /\ addLog.log[2].id # 2
    /\ addLog.log[1].title # addLog.log[2].title

C4_WriteBeforePublish ==
    Completed =>
        /\ Cardinality(Writes) = 1
        /\ Cardinality(Publications) = 1
        /\ \A w \in Writes : \A q \in Publications \cup Calls : w < q

\* C4 amended: a completed mutation makes one storage write and one
\* publication; the signal service writes first, the BehaviorSubject
\* service publishes and calls every subscriber first and writes after.
C4_OneWriteOnePublication ==
    Completed =>
        /\ Cardinality(Writes) = 1
        /\ Cardinality(Publications) = 1
        /\ Cardinality(Calls) = Len(subs)
        /\ impl = "signal" => \A w \in Writes : \A q \in Publications : w < q
        /\ impl = "subject" =>
              \A w \in Writes : \A q \in Publications \cup Calls : q < w

\* C4 witness: a completed mutation of the BehaviorSubject service with two
\* subscribers, both called before the write.
C4_Witness ==
    /\ impl = "subject"
    /\ Completed
    /\ Len(subs) = 2
    /\ Cardinality(Calls) = 2

\* C5 as claimed: a mutation calls each subscriber once, in registration
\* order, with the new list, and nothing else ever calls a view that was
\* already subscribed.
C5_OnlyMutationsNotify ==
    /\ Mutated => DeliveriesMade = Expected(subs, mem)
    /\ ~Mutated =>
          \A i \in Calls : last.op = "mount" /\ trace[i].to = subs[Len(subs)]

\* C5 amended: a mutation calls each subscriber once, in registration
\* order, with the new list; a view that mounts while the storage item
\* exists makes getCourses publish the loaded list to every view already
\* subscribed, and the new subscriber is handed the current list once; no
\* other handler calls a subscriber.
C5_Notifications ==
    /\ Mutated => DeliveriesMade = Expected(subs, mem)
    /\ last.op = "mount" =>
          DeliveriesMade =
              (IF storage # NoItem THEN Expected(Front(subs), mem) ELSE <<>>)
                  \o <<Ev("deliver", subs[Len(subs)], mem)>>
    /\ (~Mutated /\ last.op # "mount") => DeliveriesMade = <<>>

\* C5 witness: a second view mounted while the storage item existed, and
\* the first view was called because of it.
C5_Witness ==
    /\ last.op = "mount"
    /\ Len(subs) = 2
    /\ storage # NoItem
    /\ Len(DeliveriesMade) = 2
    /\ DeliveriesMade[1].to = subs[1]

\* C6: no addCourse or deleteCourse starts from an empty in-memory list
\* while the storage item holds courses.
C6_HydratedBeforeMutation ==
    [][last'.called => ~(mem = <<>> /\ Load(storage) # <<>>)]_vars

\* C7: a submit with form.invalid or without a cover does not call
\* addCourse, leaves the in-memory list and storage as they were, and
\* raises showError when the cover is missing.
C7_RejectedSubmit ==
    [][(last'.op = "submit" /\ (last'.invalid \/ ~Truthy(cover))) =>
          /\ ~last'.called
          /\ mem' = mem
          /\ storage' = storage
          /\ trace' = <<>>
          /\ ~Truthy(cover) => showError']_vars

\* C7 witness: a valid form was submitted with no cover while storage held
\* courses; nothing was added and showError is up.
C7_Witness ==
    /\ last.op = "submit"
    /\ ~last.invalid
    /\ ~last.called
    /\ ~Truthy(cover)
    /\ showError
    /\ Load(storage) # <<>>

\* C8: a submit with no file selected since the last successful submit does
\* not call addCourse.
C8_NoSubmitWithoutNewSelection ==
    [][(last'.op = "submit" /\ ~selected) => ~last'.called]_vars

C10_NoRollback ==
    [][(last'.called /\ ~last'.ok) =>
          /\ storage' = storage
          /\ last'.op = "submit" =>
                (Len(mem') = Len(mem) + 1 /\ form' = form /\ cover' = cover)
          /\ last'.op = "delete" => Len(mem') < Len(mem)]_vars

\* C10 amended: when setItem throws, storage keeps the old item and
\* saveCourse resets neither the form nor the cover; the BehaviorSubject
\* service holds and has published the mutated list, the signal service
\* holds the list it held before.
C10_FailedWrite ==
    [][(last'.called /\ ~last'.ok) =>
          /\ storage' = storage
          /\ last'.op = "submit" => (form' = form /\ cover' = cover)
          /\ impl = "signal" => (mem' = mem /\ Publications' = {})
          /\ impl = "subject" =>
                /\ last'.op = "submit" => Len(mem') = Len(mem) + 1
                /\ last'.op = "delete" => Len(mem') < Len(mem)
                /\ DeliveriesMade' = Expected(subs, mem')]_vars

\* C10 witness: an add of the BehaviorSubject service threw; a subscriber
\* was told the new list, storage does not hold it, the cover is still set.
C10_Witness ==
    /\ impl = "subject"
    /\ last.op = "submit"
    /\ last.called
    /\ ~last.ok
    /\ Len(subs) >= 1
    /\ views[subs[1]].courses = mem
    /\ Load(storage) # mem
    /\ Truthy(cover)
====
